---------------------------- MODULE Spec2Model ----------------------------
(***************************************************************************)
(* Penrose tiling generator (penrose.py): the substitution rules, the seed *)
(* constructors, the regeneration loop and the key handler.                *)
(*                                                                         *)
(* Numbers.  Every coordinate the program computes is a combination of     *)
(* the integer canvas centre, the edge length 30/PHI^depth and the         *)
(* trigonometric constants cos(pi/5), sin(pi/5), sin(2pi/5), with factors  *)
(* PHI and 1/2.  Python evaluates them in binary floating point; the model *)
(* evaluates the same expressions in exact real arithmetic:                *)
(*   - a ZPhi value [a, b] is the real a + b*PHI, PHI = (sqrt(5)-1)/2,     *)
(*     so PHI*PHI = 1 - PHI and 1/PHI = 1 + PHI;                           *)
(*   - a Num is a function from Units to ZPhi and stands for               *)
(*     (1/2) * SUM_u Num[u] * u : coefficients count HALVES of a unit,     *)
(*     which is what `length/2`, `width/2`, `height/2` need.               *)
(* Integer arithmetic (`//`) is modelled as Python's floor division.       *)
(***************************************************************************)
EXTENDS Integers, Sequences, FiniteSets, TLC

VARIABLES
    width,      \* data.width
    height,     \* data.height
    tileType,   \* data.tileType
    depth,      \* data.depth
    tiles,      \* data.tiles
    event,      \* the event the framework dispatched last ("none" before the first)
    refreshed,  \* whether the handler of that event called refreshTiles
    fn,         \* function-level specifications: the function applied ("none" before)
    arg,        \* ... its argument
    ret         \* ... its return value

vars == <<width, height, tileType, depth, tiles, event, refreshed, fn, arg, ret>>

----------------------------------------------------------------------------
(* Bounds *)

MaxDepth == 3
MaxCenter == 6
MaxGen == 2

Widths == {300, 800, 803}
Heights == {300, 500, 503}

----------------------------------------------------------------------------
(* Exact arithmetic in Z[PHI] *)

ZInt(n) == [a |-> n, b |-> 0]

ZAdd(p, q) == [a |-> p.a + q.a, b |-> p.b + q.b]

ZSub(p, q) == [a |-> p.a - q.a, b |-> p.b - q.b]

\* (a + b PHI)(c + d PHI) = ac + bd + (ad + bc - bd) PHI, as PHI^2 = 1 - PHI
ZMul(p, q) == [a |-> p.a * q.a + p.b * q.b,
               b |-> p.a * q.b + p.b * q.a - p.b * q.b]

\* PHI = (math.sqrt(5) - 1) / 2
PHI == [a |-> 0, b |-> 1]

\* The norm (a + b PHI)(a + b PHI'), PHI' = -1 - PHI the conjugate of PHI
ZNorm(q) == q.a * q.a - q.a * q.b - q.b * q.b

\* p / q = p * conj(q) / norm(q); exact for the divisors PHI^n the program
\* uses, whose norm is 1 or -1
ZDiv(p, q) ==
    LET c == [a |-> q.a - q.b, b |-> 0 - q.b]
        m == ZMul(p, c)
    IN  [a |-> m.a \div ZNorm(q), b |-> m.b \div ZNorm(q)]

RECURSIVE ZPow(_, _)
\* z ** n (a negative n gives the reciprocal, as Python's float ** does)
ZPow(z, n) ==
    IF n < 0 THEN ZDiv(ZInt(1), ZPow(z, 0 - n))
    ELSE IF n = 0 THEN ZInt(1) ELSE ZMul(z, ZPow(z, n - 1))

----------------------------------------------------------------------------
(* Coordinates *)

Units == {"one", "cos36", "sin36", "sin72"}

\* the real z times the unit u
Term(z, u) == [v \in Units |-> IF v = u THEN ZMul(ZInt(2), z) ELSE ZInt(0)]

\* an int
NumInt(n) == Term(ZInt(n), "one")

NumAdd(m, n) == [u \in Units |-> ZAdd(m[u], n[u])]

NumSub(m, n) == [u \in Units |-> ZSub(m[u], n[u])]

\* z * n for a real z of Z[PHI]
NumMul(z, n) == [u \in Units |-> ZMul(z, n[u])]

\* n / 2; every quantity the program halves is a whole number of units
NumHalf(n) == [u \in Units |-> [a |-> n[u].a \div 2, b |-> n[u].b \div 2]]

Point(x, y) == [x |-> x, y |-> y]

\* Return point that is phi of the way between given points
goldenMidpoint(A, B) ==
    LET dx == NumSub(B.x, A.x)
        dy == NumSub(B.y, A.y)
    IN  Point(NumAdd(A.x, NumMul(PHI, dx)), NumAdd(A.y, NumMul(PHI, dy)))

----------------------------------------------------------------------------
(* Half-tiles *)

Isoceles(variant, apex, vertex1, vertex2) ==
    [variant |-> variant, apex |-> apex, vertex1 |-> vertex1, vertex2 |-> vertex2]

Kite(apex, vertex1, vertex2) == Isoceles("Kite", apex, vertex1, vertex2)

Dart(apex, vertex1, vertex2) == Isoceles("Dart", apex, vertex1, vertex2)

Acute(apex, vertex1, vertex2) == Isoceles("Acute", apex, vertex1, vertex2)

Obtuse(apex, vertex1, vertex2) == Isoceles("Obtuse", apex, vertex1, vertex2)

\* Kite_deflate with the dart returned after the first kite
Kite_deflate_dartSecond(self) ==
    LET newPoint1 == goldenMidpoint(self.vertex1, self.apex)
        newPoint2 == goldenMidpoint(self.apex, self.vertex2)
        dart == Dart(newPoint1, newPoint2, self.apex)
        kite1 == Kite(self.vertex1, newPoint1, newPoint2)
        kite2 == Kite(self.vertex1, self.vertex2, newPoint2)
    IN  <<kite1, dart, kite2>>

Kite_deflate(self) ==
    LET newPoint1 == goldenMidpoint(self.vertex1, self.apex)
        newPoint2 == goldenMidpoint(self.apex, self.vertex2)
        dart == Dart(newPoint1, newPoint2, self.apex)
        kite1 == Kite(self.vertex1, newPoint1, newPoint2)
        kite2 == Kite(self.vertex1, self.vertex2, newPoint2)
    IN  <<dart, kite1, kite2>>

\* Dart_deflate with the kite's vertex1 and vertex2 arguments swapped
Dart_deflate_swapped(self) ==
    LET newPoint == goldenMidpoint(self.vertex2, self.vertex1)
        kite == Kite(self.vertex2, self.apex, newPoint)
        dart == Dart(newPoint, self.apex, self.vertex1)
    IN  <<kite, dart>>

Dart_deflate(self) ==
    LET newPoint == goldenMidpoint(self.vertex2, self.vertex1)
        kite == Kite(self.vertex2, newPoint, self.apex)
        dart == Dart(newPoint, self.apex, self.vertex1)
    IN  <<kite, dart>>

Acute_deflate(self) ==
    LET newPoint == goldenMidpoint(self.apex, self.vertex1)
        obtuse == Obtuse(newPoint, self.vertex2, self.apex)
        acute == Acute(self.vertex2, newPoint, self.vertex1)
    IN  <<obtuse, acute>>

\* Obtuse_deflate without its third child
Obtuse_deflate_twoChildren(self) ==
    LET newPoint1 == goldenMidpoint(self.vertex1, self.apex)
        newPoint2 == goldenMidpoint(self.vertex1, self.vertex2)
        obtuse1 == Obtuse(newPoint1, newPoint2, self.vertex1)
        acute == Acute(newPoint2, newPoint1, self.apex)
    IN  <<obtuse1, acute>>

Obtuse_deflate(self) ==
    LET newPoint1 == goldenMidpoint(self.vertex1, self.apex)
        newPoint2 == goldenMidpoint(self.vertex1, self.vertex2)
        obtuse1 == Obtuse(newPoint1, newPoint2, self.vertex1)
        acute == Acute(newPoint2, newPoint1, self.apex)
        obtuse2 == Obtuse(newPoint2, self.vertex2, self.apex)
    IN  <<obtuse1, acute, obtuse2>>

\* tile.deflate(): dispatch on the tile's class
deflate(tile) ==
    CASE tile.variant = "Kite" -> Kite_deflate(tile)
      [] tile.variant = "Dart" -> Dart_deflate(tile)
      [] tile.variant = "Acute" -> Acute_deflate(tile)
      [] tile.variant = "Obtuse" -> Obtuse_deflate(tile)

----------------------------------------------------------------------------
(* Seeds *)

\* KiteDart_initialTiles with the top-middle point passed as the apex
KiteDart_initialTiles_apexOnTop(cx0, cy0, length) ==
    LET cx == (cx0 * 2) \div 5
        cy == (cy0 * 2) \div 5
        halfLength == NumHalf(Term(length, "one"))
        left == NumSub(NumInt(cx), halfLength)
        right == NumAdd(NumInt(cx), halfLength)
        midX == NumAdd(left, Term(length, "cos36"))
        hgt == Term(length, "sin36")
        top == NumSub(NumInt(cy), NumHalf(hgt))
        bottom == NumAdd(NumInt(cy), NumHalf(hgt))
    IN  <<Kite(Point(midX, top), Point(left, bottom), Point(right, bottom))>>

\* KiteDart_initialTiles scaling the centre with round-to-nearest
KiteDart_initialTiles_rounded(cx0, cy0, length) ==
    LET cx == (cx0 * 2 + 2) \div 5
        cy == (cy0 * 2 + 2) \div 5
        halfLength == NumHalf(Term(length, "one"))
        left == NumSub(NumInt(cx), halfLength)
        right == NumAdd(NumInt(cx), halfLength)
        midX == NumAdd(left, Term(length, "cos36"))
        hgt == Term(length, "sin36")
        top == NumSub(NumInt(cy), NumHalf(hgt))
        bottom == NumAdd(NumInt(cy), NumHalf(hgt))
    IN  <<Kite(Point(left, bottom), Point(midX, top), Point(right, bottom))>>

\* Create half kite given position and leg length
KiteDart_initialTiles(cx0, cy0, length) ==
    LET cx == (cx0 * 2) \div 5
        cy == (cy0 * 2) \div 5
        halfLength == NumHalf(Term(length, "one"))
        left == NumSub(NumInt(cx), halfLength)
        right == NumAdd(NumInt(cx), halfLength)
        midX == NumAdd(left, Term(length, "cos36"))
        hgt == Term(length, "sin36")
        top == NumSub(NumInt(cy), NumHalf(hgt))
        bottom == NumAdd(NumInt(cy), NumHalf(hgt))
    IN  <<Kite(Point(left, bottom), Point(midX, top), Point(right, bottom))>>

\* Rhomb_initialTiles with the triangle to the right of the centre, not
\* around it
Rhomb_initialTiles_rightOfCentre(cx0, cy, length) ==
    LET cx == (cx0 * 2) \div 5
        wid == Term(length, "sin72")
        hgt == Term(ZMul(length, PHI), "one")
        left == NumInt(cx)
        right == NumAdd(NumInt(cx), wid)
        top == NumSub(NumInt(cy), NumHalf(hgt))
        bottom == NumAdd(NumInt(cy), NumHalf(hgt))
    IN  <<Acute(Point(left, NumInt(cy)), Point(right, top), Point(right, bottom))>>

\* Create acute Robinson triangle given position and leg length
Rhomb_initialTiles(cx0, cy, length) ==
    LET cx == (cx0 * 2) \div 5
        wid == Term(length, "sin72")
        hgt == Term(ZMul(length, PHI), "one")
        left == NumSub(NumInt(cx), NumHalf(wid))
        right == NumAdd(NumInt(cx), NumHalf(wid))
        top == NumSub(NumInt(cy), NumHalf(hgt))
        bottom == NumAdd(NumInt(cy), NumHalf(hgt))
    IN  <<Acute(Point(left, NumInt(cy)), Point(right, top), Point(right, bottom))>>

----------------------------------------------------------------------------
(* Regeneration *)

baseLength == 30

RECURSIVE extendAll(_, _)
\* the loop `for tile in data.tiles: newTiles.extend(tile.deflate())`,
\* newTiles being the list built so far and ts the tiles still to visit
extendAll(newTiles, ts) ==
    IF ts = <<>> THEN newTiles
    ELSE extendAll(newTiles \o deflate(Head(ts)), Tail(ts))

\* deflateTiles extending data.tiles itself instead of a fresh list
deflateTiles_inPlace(ts) == extendAll(ts, ts)

\* Increase depth of all tiles in data.tiles: the new value of data.tiles
deflateTiles(ts) == extendAll(<<>>, ts)

RECURSIVE deflateRounds(_, _)
\* the loop `for _ in range(data.depth): deflateTiles(data)`; range(n) is
\* empty for n <= 0
deflateRounds(ts, n) ==
    IF n <= 0 THEN ts ELSE deflateRounds(deflateTiles(ts), n - 1)

\* initialLength = data.baseLength / PHI**data.depth
initialLength(d) == ZDiv(ZInt(baseLength), ZPow(PHI, d))

\* refreshTiles testing for a label data.tileType never has
refreshTiles_wrongLabel(w, h, tt, d, old) ==
    LET cx == w \div 2
        cy == h \div 2
        seed == IF tt = "Kites & Darts"
                THEN KiteDart_initialTiles(cx, cy, initialLength(d))
                ELSE IF tt = "Rhombs"
                     THEN Rhomb_initialTiles(cx, cy, initialLength(d))
                     ELSE old
    IN  deflateRounds(seed, d)

\* Generate tiling with depth specified by data.depth: the new value of
\* data.tiles, old being its value at the call
refreshTiles(w, h, tt, d, old) ==
    LET cx == w \div 2
        cy == h \div 2
        seed == IF tt = "Kite & Dart"
                THEN KiteDart_initialTiles(cx, cy, initialLength(d))
                ELSE IF tt = "Rhombs"
                     THEN Rhomb_initialTiles(cx, cy, initialLength(d))
                     ELSE old
    IN  deflateRounds(seed, d)

----------------------------------------------------------------------------
(* The application: run(), init() and the event handlers *)

Keysyms == {"Up", "Down", "Tab", "space"}

\* run(width, height) up to the main loop: data.width, data.height, then
\* init(data): tiles = [], tileType = "Rhombs", depth = 0, refreshTiles(data)
Init ==
    /\ width \in Widths
    /\ height \in Heights
    /\ tileType = "Rhombs"
    /\ depth = 0
    /\ tiles = refreshTiles(width, height, "Rhombs", 0, <<>>)
    /\ event = "none"
    /\ refreshed = TRUE
    /\ fn = "none"
    /\ arg = <<>>
    /\ ret = <<>>

\* keyPressed decreasing the depth without testing it
keyPressed_noFloor(keysym) ==
    /\ fn = "none"
    /\ keysym = "Up" => depth < MaxDepth
    /\ event' = keysym
    /\ IF keysym = "Up"
       THEN /\ depth' = depth + 1
            /\ tileType' = tileType
            /\ tiles' = refreshTiles(width, height, tileType, depth + 1, tiles)
            /\ refreshed' = TRUE
       ELSE IF keysym = "Down"
       THEN /\ depth' = depth - 1
            /\ tileType' = tileType
            /\ tiles' = refreshTiles(width, height, tileType, depth - 1, tiles)
            /\ refreshed' = TRUE
       ELSE IF keysym = "Tab"
       THEN /\ tileType' = (IF tileType = "Rhombs" THEN "Kite & Dart" ELSE "Rhombs")
            /\ depth' = depth
            /\ tiles' = refreshTiles(width, height, tileType', depth, tiles)
            /\ refreshed' = TRUE
       ELSE /\ UNCHANGED <<depth, tileType, tiles>>
            /\ refreshed' = FALSE
    /\ UNCHANGED <<width, height, fn, arg, ret>>

\* keyPressed deflating the current tiles on Up instead of regenerating
keyPressed_incremental(keysym) ==
    /\ fn = "none"
    /\ keysym = "Up" => depth < MaxDepth
    /\ event' = keysym
    /\ IF keysym = "Up"
       THEN /\ depth' = depth + 1
            /\ tileType' = tileType
            /\ tiles' = deflateTiles(tiles)
            /\ refreshed' = FALSE
       ELSE IF keysym = "Down"
       THEN IF depth > 0
            THEN /\ depth' = depth - 1
                 /\ tileType' = tileType
                 /\ tiles' = refreshTiles(width, height, tileType, depth - 1, tiles)
                 /\ refreshed' = TRUE
            ELSE /\ UNCHANGED <<depth, tileType, tiles>>
                 /\ refreshed' = FALSE
       ELSE IF keysym = "Tab"
       THEN /\ tileType' = (IF tileType = "Rhombs" THEN "Kite & Dart" ELSE "Rhombs")
            /\ depth' = depth
            /\ tiles' = refreshTiles(width, height, tileType', depth, tiles)
            /\ refreshed' = TRUE
       ELSE /\ UNCHANGED <<depth, tileType, tiles>>
            /\ refreshed' = FALSE
    /\ UNCHANGED <<width, height, fn, arg, ret>>

keyPressed(keysym) ==
    /\ fn = "none"
    /\ keysym = "Up" => depth < MaxDepth
    /\ event' = keysym
    /\ IF keysym = "Up"
       THEN /\ depth' = depth + 1
            /\ tileType' = tileType
            /\ tiles' = refreshTiles(width, height, tileType, depth + 1, tiles)
            /\ refreshed' = TRUE
       ELSE IF keysym = "Down"
       THEN IF depth > 0
            THEN /\ depth' = depth - 1
                 /\ tileType' = tileType
                 /\ tiles' = refreshTiles(width, height, tileType, depth - 1, tiles)
                 /\ refreshed' = TRUE
            ELSE /\ UNCHANGED <<depth, tileType, tiles>>
                 /\ refreshed' = FALSE
       ELSE IF keysym = "Tab"
       THEN /\ tileType' = (IF tileType = "Rhombs" THEN "Kite & Dart" ELSE "Rhombs")
            /\ depth' = depth
            /\ tiles' = refreshTiles(width, height, tileType', depth, tiles)
            /\ refreshed' = TRUE
       ELSE /\ UNCHANGED <<depth, tileType, tiles>>
            /\ refreshed' = FALSE
    /\ UNCHANGED <<width, height, fn, arg, ret>>

mousePressed ==
    /\ fn = "none"
    /\ event' = "Button-1"
    /\ refreshed' = FALSE
    /\ UNCHANGED <<width, height, tileType, depth, tiles, fn, arg, ret>>

timerFired ==
    /\ fn = "none"
    /\ event' = "timer"
    /\ refreshed' = FALSE
    /\ UNCHANGED <<width, height, tileType, depth, tiles, fn, arg, ret>>

Next ==
    \/ \E keysym \in Keysyms : keyPressed(keysym)
    \/ mousePressed
    \/ timerFired

Spec == Init /\ [][Next]_vars

----------------------------------------------------------------------------
(* Function-level specifications: a function of the program applied once   *)
(* to arguments drawn from bounded sets.                                   *)

\* the data fields the function-level specifications leave alone
idle ==
    /\ event = "none"
    /\ refreshed = FALSE
    /\ fn = "none"
    /\ ret = <<>>

\* -- the seed constructors, applied to a centre and a leg length

SeedArgs ==
    [cx : (0 - MaxCenter) .. MaxCenter, cy : (0 - MaxCenter) .. MaxCenter,
     length : {initialLength(d) : d \in 0 .. MaxDepth}]

InitSeed ==
    /\ idle
    /\ width = 0
    /\ height = 0
    /\ tileType = "Rhombs"
    /\ depth = 0
    /\ tiles = <<>>
    /\ arg \in SeedArgs

CallKiteDartInitialTiles ==
    /\ fn = "none"
    /\ fn' = "KiteDart.initialTiles"
    /\ ret' = KiteDart_initialTiles(arg.cx, arg.cy, arg.length)
    /\ UNCHANGED <<width, height, tileType, depth, tiles, event, refreshed, arg>>

CallRhombInitialTiles ==
    /\ fn = "none"
    /\ fn' = "Rhomb.initialTiles"
    /\ ret' = Rhomb_initialTiles(arg.cx, arg.cy, arg.length)
    /\ UNCHANGED <<width, height, tileType, depth, tiles, event, refreshed, arg>>

NextSeed ==
    \/ CallKiteDartInitialTiles
    \/ CallRhombInitialTiles

SpecSeed == InitSeed /\ [][NextSeed]_vars

\* -- tile.deflate() and deflateTiles(data), applied to a generation of
\*    arbitrary half-tiles over three points in general position, or to a
\*    generation the program builds

TestA == Point(NumInt(0), NumInt(0))

TestB == Point(NumInt(4), NumInt(1))

TestC == Point(Term([a |-> 1, b |-> 1], "one"), NumInt(3))

Variants == {"Kite", "Dart", "Acute", "Obtuse"}

TestTiles ==
    {Isoceles(v, TestA, TestB, TestC) : v \in Variants}
        \cup {Isoceles(v, TestB, TestC, TestA) : v \in Variants}

RECURSIVE ListsUpTo(_, _)
\* the lists of at most n elements of S
ListsUpTo(S, n) ==
    IF n = 0 THEN {<<>>}
    ELSE LET shorter == ListsUpTo(S, n - 1)
         IN  shorter \cup {Append(l, x) : l \in shorter, x \in S}

\* the generations the program itself builds on the 800 x 500 canvas
ProgramGenerations ==
    {refreshTiles(800, 500, tt, d, <<>>) :
        tt \in {"Rhombs", "Kite & Dart"}, d \in 0 .. MaxDepth}

InitDeflate ==
    /\ idle
    /\ width = 800
    /\ height = 500
    /\ tileType \in {"Rhombs", "Kite & Dart"}
    /\ depth \in 0 .. MaxDepth
    /\ tiles \in ListsUpTo(TestTiles, MaxGen) \cup ProgramGenerations
    /\ arg = <<>>

\* tile.deflate() for a tile of data.tiles
CallDeflate ==
    /\ fn = "none"
    /\ \E i \in 1 .. Len(tiles) :
          /\ arg' = tiles[i]
          /\ ret' = deflate(tiles[i])
    /\ fn' = "deflate"
    /\ UNCHANGED <<width, height, tileType, depth, tiles, event, refreshed>>

\* deflateTiles(data); arg keeps the fields of data at the call
CallDeflateTiles ==
    /\ fn = "none"
    /\ arg' = [tiles |-> tiles, tileType |-> tileType, depth |-> depth]
    /\ tiles' = deflateTiles(tiles)
    /\ fn' = "deflateTiles"
    /\ UNCHANGED <<width, height, tileType, depth, event, refreshed, ret>>

NextDeflate ==
    \/ CallDeflate
    \/ CallDeflateTiles

SpecDeflate == InitDeflate /\ [][NextDeflate]_vars

----------------------------------------------------------------------------
(* Claims about the substitution rules (SpecDeflate) *)

\* the number of tiles of variant v in the list ts
Count(ts, v) == Cardinality({i \in 1 .. Len(ts) : ts[i].variant = v})

\* the variants of the list ts, in order
VariantsOf(ts) == [i \in 1 .. Len(ts) |-> ts[i].variant]

\* C1: deflate returns children whose variants are fixed by the parent's
\* variant alone: a Kite gives [Dart, Kite, Kite] in that order, a Dart
\* 1 Kite + 1 Dart, an Acute 1 Obtuse + 1 Acute, an Obtuse 2 Obtuse + 1 Acute,
\* and nothing else.
C1_ChildVariants ==
    fn = "deflate" =>
        /\ arg.variant = "Kite" => VariantsOf(ret) = <<"Dart", "Kite", "Kite">>
        /\ arg.variant = "Dart" =>
              /\ Len(ret) = 2
              /\ Count(ret, "Kite") = 1
              /\ Count(ret, "Dart") = 1
        /\ arg.variant = "Acute" =>
              /\ Len(ret) = 2
              /\ Count(ret, "Obtuse") = 1
              /\ Count(ret, "Acute") = 1
        /\ arg.variant = "Obtuse" =>
              /\ Len(ret) = 3
              /\ Count(ret, "Obtuse") = 2
              /\ Count(ret, "Acute") = 1

C1_Witness ==
    /\ fn = "deflate"
    /\ arg.variant = "Kite"
    /\ Len(ret) = 3
    /\ ret[1].variant = "Dart"

\* the substitution table of the rules, row by row
SubstitutionTable(t) ==
    CASE t.variant = "Kite" ->
            LET P1 == goldenMidpoint(t.vertex1, t.apex)
                P2 == goldenMidpoint(t.apex, t.vertex2)
            IN  << [variant |-> "Dart", apex |-> P1, vertex1 |-> P2, vertex2 |-> t.apex],
                   [variant |-> "Kite", apex |-> t.vertex1, vertex1 |-> P1, vertex2 |-> P2],
                   [variant |-> "Kite", apex |-> t.vertex1, vertex1 |-> t.vertex2,
                    vertex2 |-> P2] >>
      [] t.variant = "Dart" ->
            LET P == goldenMidpoint(t.vertex2, t.vertex1)
            IN  << [variant |-> "Kite", apex |-> t.vertex2, vertex1 |-> P,
                    vertex2 |-> t.apex],
                   [variant |-> "Dart", apex |-> P, vertex1 |-> t.apex,
                    vertex2 |-> t.vertex1] >>
      [] t.variant = "Acute" ->
            LET P == goldenMidpoint(t.apex, t.vertex1)
            IN  << [variant |-> "Obtuse", apex |-> P, vertex1 |-> t.vertex2,
                    vertex2 |-> t.apex],
                   [variant |-> "Acute", apex |-> t.vertex2, vertex1 |-> P,
                    vertex2 |-> t.vertex1] >>
      [] t.variant = "Obtuse" ->
            LET P1 == goldenMidpoint(t.vertex1, t.apex)
                P2 == goldenMidpoint(t.vertex1, t.vertex2)
            IN  << [variant |-> "Obtuse", apex |-> P1, vertex1 |-> P2,
                    vertex2 |-> t.vertex1],
                   [variant |-> "Acute", apex |-> P2, vertex1 |-> P1, vertex2 |-> t.apex],
                   [variant |-> "Obtuse", apex |-> P2, vertex1 |-> t.vertex2,
                    vertex2 |-> t.apex] >>

VerticesOf(t) == {t.apex, t.vertex1, t.vertex2}

\* the golden points of the edges of t, in either direction
EdgePointsOf(t) ==
    {goldenMidpoint(e[1], e[2]) :
        e \in {f \in VerticesOf(t) \X VerticesOf(t) : f[1] # f[2]}}

\* C2: each child produced by deflate has its (apex, vertex1, vertex2)
\* fields set to exactly the points of the substitution table, in that
\* positional order; every child vertex is a parent vertex or a golden point
\* on a parent edge.
C2_ChildVertices ==
    fn = "deflate" =>
        /\ ret = SubstitutionTable(arg)
        /\ \A i \in 1 .. Len(ret) :
              VerticesOf(ret[i]) \subseteq VerticesOf(arg) \cup EdgePointsOf(arg)

C2_Witness ==
    /\ fn = "deflate"
    /\ arg.variant = "Dart"
    /\ arg.vertex1 # arg.vertex2
    /\ ret[1].vertex1 = goldenMidpoint(arg.vertex2, arg.vertex1)
    /\ ret[1].vertex2 = arg.apex

RECURSIVE ChildrenBefore(_, _)
\* how many children the first i - 1 tiles of the list ts have
ChildrenBefore(ts, i) ==
    IF i <= 1 THEN 0
    ELSE ChildrenBefore(ts, i - 1) + Len(deflate(ts[i - 1]))

\* C9: one deflation round replaces the generation [t1, ..., tn] by
\* deflate(t1) ++ ... ++ deflate(tn): the children of an earlier tile precede
\* those of a later one, each tile's children keep their rule order, no tile
\* of the previous generation remains, and depth and tileType are unchanged.
C9_DeflationRound ==
    fn = "deflateTiles" =>
        /\ Len(tiles) = ChildrenBefore(arg.tiles, Len(arg.tiles) + 1)
        /\ \A i \in 1 .. Len(arg.tiles) :
              \A k \in 1 .. Len(deflate(arg.tiles[i])) :
                  tiles[ChildrenBefore(arg.tiles, i) + k] = deflate(arg.tiles[i])[k]
        /\ \A i \in 1 .. Len(arg.tiles) :
              \A j \in 1 .. Len(tiles) : tiles[j] # arg.tiles[i]
        /\ depth = arg.depth
        /\ tileType = arg.tileType

C9_Witness ==
    /\ fn = "deflateTiles"
    /\ Len(arg.tiles) = 2
    /\ arg.tiles[1].variant = "Kite"
    /\ arg.tiles[2].variant = "Acute"
    /\ Len(tiles) = 5
    /\ tiles[4].variant = "Obtuse"

----------------------------------------------------------------------------
(* Claims about the application (Spec) *)

\* C3: with depth = 0 a Down key is a no-op: depth, tileType and the tile
\* list are unchanged and no regeneration is performed; depth >= 0 holds in
\* every state reachable by Up/Down/Tab events.
C3_DownAtZeroIsNoOp ==
    [][ /\ depth' >= 0
        /\ (depth = 0 /\ event' = "Down") =>
              /\ depth' = 0
              /\ tileType' = tileType
              /\ tiles' = tiles
              /\ ~refreshed' ]_vars

C3_Witness ==
    /\ event = "Down"
    /\ depth = 0
    /\ ~refreshed
    /\ tileType = "Kite & Dart"

\* the seed the constructor of family tt gives on a w x h canvas at depth d
SeedFor(tt, w, h, d) ==
    IF tt = "Kite & Dart"
    THEN KiteDart_initialTiles(w \div 2, h \div 2, initialLength(d))
    ELSE Rhomb_initialTiles(w \div 2, h \div 2, initialLength(d))

RECURSIVE Deflated(_, _)
\* the generation ts deflated n times
Deflated(ts, n) == IF n = 0 THEN ts ELSE deflateTiles(Deflated(ts, n - 1))

\* C4: after init and after any sequence of control events the tile list is
\* the seed of the current tileType deflated exactly `depth` times, hence a
\* function of (tileType, depth, baseLength, canvas size) only.
C4_TilesAreRegenerated ==
    tiles = Deflated(SeedFor(tileType, width, height, depth), depth)

C4_Witness ==
    /\ event = "Down"
    /\ refreshed
    /\ depth = 1
    /\ tileType = "Kite & Dart"
    /\ Len(tiles) = 3

\* C5, as stated: the rhomb family has exactly 1 Acute at depth 0, exactly
\* 1 Obtuse + 1 Acute at depth 1, and exactly 3 tiles at depth 2.
C5_Original ==
    tileType = "Rhombs" =>
        /\ depth = 0 => VariantsOf(tiles) = <<"Acute">>
        /\ depth = 1 =>
              /\ Len(tiles) = 2
              /\ Count(tiles, "Obtuse") = 1
              /\ Count(tiles, "Acute") = 1
        /\ depth = 2 => Len(tiles) = 3

\* C5, amended: the rhomb family has exactly 1 Acute at depth 0, exactly
\* 1 Obtuse + 1 Acute at depth 1, and exactly 5 tiles (3 Obtuse + 2 Acute)
\* at depth 2.
C5_RhombCounts ==
    tileType = "Rhombs" =>
        /\ depth = 0 => VariantsOf(tiles) = <<"Acute">>
        /\ depth = 1 =>
              /\ Len(tiles) = 2
              /\ Count(tiles, "Obtuse") = 1
              /\ Count(tiles, "Acute") = 1
        /\ depth = 2 =>
              /\ Len(tiles) = 5
              /\ Count(tiles, "Obtuse") = 3
              /\ Count(tiles, "Acute") = 2

C5_Witness ==
    /\ tileType = "Rhombs"
    /\ depth = 2
    /\ Len(tiles) = 5

\* the state the scenario of C7 is about: Rhomb, depth 0, centre (400, 250)
C7_Scenario ==
    /\ tileType = "Rhombs"
    /\ depth = 0
    /\ width \div 2 = 400
    /\ height \div 2 = 250

\* 30 * sin(72 deg) and 30 * phi / 2
C7_Width == Term(ZInt(30), "sin72")

C7_HalfHeight == NumHalf(Term(ZMul(ZInt(30), PHI), "one"))

\* C7, as stated: the scenario gives one Acute half-tile with apex
\* (160, 250) and vertex1, vertex2 at x = 160 + 30 sin(72 deg),
\* y = 250 -/+ 30 phi / 2.
C7_Original ==
    C7_Scenario =>
        /\ Len(tiles) = 1
        /\ tiles[1].variant = "Acute"
        /\ tiles[1].apex = Point(NumInt(160), NumInt(250))
        /\ tiles[1].vertex1 =
              Point(NumAdd(NumInt(160), C7_Width), NumSub(NumInt(250), C7_HalfHeight))
        /\ tiles[1].vertex2 =
              Point(NumAdd(NumInt(160), C7_Width), NumAdd(NumInt(250), C7_HalfHeight))

\* C7, amended: the scenario gives one Acute half-tile with apex
\* (160 - 30 sin(72 deg) / 2, 250) and vertex1, vertex2 at
\* x = 160 + 30 sin(72 deg) / 2, y = 250 -/+ 30 phi / 2: the triangle lies
\* around the scaled centre x, half a width to either side.
C7_RhombSeedScenario ==
    C7_Scenario =>
        /\ Len(tiles) = 1
        /\ tiles[1].variant = "Acute"
        /\ tiles[1].apex =
              Point(NumSub(NumInt(160), NumHalf(C7_Width)), NumInt(250))
        /\ tiles[1].vertex1 =
              Point(NumAdd(NumInt(160), NumHalf(C7_Width)),
                    NumSub(NumInt(250), C7_HalfHeight))
        /\ tiles[1].vertex2 =
              Point(NumAdd(NumInt(160), NumHalf(C7_Width)),
                    NumAdd(NumInt(250), C7_HalfHeight))

C7_Witness ==
    /\ C7_Scenario
    /\ event = "Tab"
    /\ Len(tiles) = 1

FamilyOf(tt) ==
    IF tt = "Kite & Dart" THEN {"Kite", "Dart"} ELSE {"Acute", "Obtuse"}

\* C10: in every reachable state tileType is one of the two families, the
\* tile list is not empty and every tile in it is a variant of that family.
C10_FamilyClosure ==
    /\ tileType \in {"Kite & Dart", "Rhombs"}
    /\ tiles # <<>>
    /\ \A i \in 1 .. Len(tiles) : tiles[i].variant \in FamilyOf(tileType)

C10_Witness ==
    /\ event = "Tab"
    /\ tileType = "Kite & Dart"
    /\ depth = 2
    /\ Count(tiles, "Kite") + Count(tiles, "Dart") = 8

----------------------------------------------------------------------------
(* Claims about the seed constructors (SpecSeed) *)

\* the corners the Kite/Dart seed is built from
KiteSeedLeft == NumSub(NumInt((arg.cx * 2) \div 5), NumHalf(Term(arg.length, "one")))

KiteSeedRight == NumAdd(NumInt((arg.cx * 2) \div 5), NumHalf(Term(arg.length, "one")))

KiteSeedMidX == NumAdd(KiteSeedLeft, Term(arg.length, "cos36"))

KiteSeedTop ==
    NumSub(NumInt((arg.cy * 2) \div 5), NumHalf(Term(arg.length, "sin36")))

KiteSeedBottom ==
    NumAdd(NumInt((arg.cy * 2) \div 5), NumHalf(Term(arg.length, "sin36")))

\* C6, as stated: the Kite/Dart seed is a single Kite with vertex1 =
\* (left, bottom), apex = (midX, top), vertex2 = (right, bottom).
C6_Original ==
    fn = "KiteDart.initialTiles" =>
        /\ VariantsOf(ret) = <<"Kite">>
        /\ ret[1].vertex1 = Point(KiteSeedLeft, KiteSeedBottom)
        /\ ret[1].apex = Point(KiteSeedMidX, KiteSeedTop)
        /\ ret[1].vertex2 = Point(KiteSeedRight, KiteSeedBottom)

\* C6, amended: the Kite/Dart seed is a single Kite with apex =
\* (left, bottom), vertex1 = (midX, top), vertex2 = (right, bottom).
C6_KiteSeedFields ==
    fn = "KiteDart.initialTiles" =>
        /\ VariantsOf(ret) = <<"Kite">>
        /\ ret[1].apex = Point(KiteSeedLeft, KiteSeedBottom)
        /\ ret[1].vertex1 = Point(KiteSeedMidX, KiteSeedTop)
        /\ ret[1].vertex2 = Point(KiteSeedRight, KiteSeedBottom)

C6_Witness ==
    /\ fn = "KiteDart.initialTiles"
    /\ arg.length = initialLength(1)
    /\ ret[1].apex.x # ret[1].vertex1.x
    /\ ret[1].apex.y = ret[1].vertex2.y

\* twice the centre of the returned seed: left + right and top + bottom for
\* the Kite/Dart seed, left + right and twice the apex's y for the Rhomb seed
SeedCentre2 ==
    IF fn = "KiteDart.initialTiles"
    THEN Point(NumAdd(ret[1].apex.x, ret[1].vertex2.x),
               NumAdd(ret[1].vertex1.y, ret[1].apex.y))
    ELSE Point(NumAdd(ret[1].apex.x, ret[1].vertex1.x),
               NumAdd(ret[1].apex.y, ret[1].apex.y))

\* C8, as stated: the seed lies around the centre scaled by exactly 2/5,
\* (2 cx / 5, 2 cy / 5) for Kite/Dart and (2 cx / 5, cy) for Rhomb, with no
\* rounding or truncation: 5 * centre = 2 * (cx, cy).
C8_Original ==
    /\ fn = "KiteDart.initialTiles" =>
          /\ NumMul(ZInt(5), SeedCentre2.x) = NumInt(2 * 2 * arg.cx)
          /\ NumMul(ZInt(5), SeedCentre2.y) = NumInt(2 * 2 * arg.cy)
    /\ fn = "Rhomb.initialTiles" =>
          /\ NumMul(ZInt(5), SeedCentre2.x) = NumInt(2 * 2 * arg.cx)
          /\ SeedCentre2.y = NumInt(2 * arg.cy)

\* C8, amended: the seed lies around the centre scaled by 2/5 and rounded
\* down to an integer: (floor(2 cx / 5), floor(2 cy / 5)) for Kite/Dart and
\* (floor(2 cx / 5), cy) for Rhomb.
C8_SeedCentreFloor ==
    /\ fn = "KiteDart.initialTiles" =>
          /\ SeedCentre2.x = NumInt(2 * ((2 * arg.cx) \div 5))
          /\ SeedCentre2.y = NumInt(2 * ((2 * arg.cy) \div 5))
    /\ fn = "Rhomb.initialTiles" =>
          /\ SeedCentre2.x = NumInt(2 * ((2 * arg.cx) \div 5))
          /\ SeedCentre2.y = NumInt(2 * arg.cy)

C8_Witness ==
    /\ fn = "KiteDart.initialTiles"
    /\ arg.cx = 4
    /\ arg.cy = 3
    /\ SeedCentre2 = Point(NumInt(2), NumInt(2))

=============================================================================
